---- MODULE Spec2Model ----
(***************************************************************************)
(* A model of marked-toc (index.js): the TOC generation pipeline           *)
(* (generate / toc / toc.raw) and the insertion of a generated TOC between *)
(* marker comments (toc.insert).                                           *)
(*                                                                         *)
(* Text is a sequence of symbols.  A symbol is one character, written as a *)
(* one-character string, or one of the atomic literals START, STOP, FENCE  *)
(* and the inline tags of TagSyms, which stand for the character runs of   *)
(* the same spelling.                                                      *)
(***************************************************************************)
EXTENDS Integers, Sequences, FiniteSets, TLC

VARIABLES pc,        \* toc.raw: "start", then "done"; toc.insert: "doc"
          lexed,     \* marked.lexer(str): the token stream handed to generate
          options,   \* the caller's options object
          tokens,    \* generate: `tokens` after the optional shift()
          h1,        \* generate: `h1`
          headings,  \* generate: the tokens that passed the filter callback
          tocArray,  \* generate: `tocArray`
          tocText,   \* generate: `toc` (the rendered string)
          kept,      \* for each record of tocArray, the index in lexed of its token
          error,     \* "none", or the exception generate threw
          doc,       \* toc.insert: the document text (input of the next insert)
          prev,      \* toc.insert: the input of the latest insert
          nIns       \* toc.insert: number of inserts applied so far

vars == <<pc, lexed, options, tokens, h1, headings, tocArray, tocText, kept,
          error, doc, prev, nIns>>

-----------------------------------------------------------------------------
(* Bounds *)

MaxTokens == 3
MaxTokDepth == 4
MaxBlocks == 3
MaxInserts == 2

-----------------------------------------------------------------------------
(* Symbols and texts *)

NL == "\n"
START == "<!-- toc -->"
STOP == "<!-- tocstop -->"
FENCE == "---"
TagSyms == {"<b>", "</b>"}
Undefined == <<"undefined">>

RECURSIVE Flatten(_)
Flatten(ss) == IF ss = <<>> THEN <<>> ELSE Head(ss) \o Flatten(Tail(ss))

RECURSIVE Spaces(_)
Spaces(n) == IF n <= 0 THEN <<>> ELSE <<" ">> \o Spaces(n - 1)

Range(s) == {s[i] : i \in DOMAIN s}

TxtA == <<"A">>
TxtB == <<"<b>", "B", "</b>">>
TxtTOC == <<"T", "O", "C">>
TxtDollar == <<"A", "$", "$">>

-----------------------------------------------------------------------------
(* Collaborators: lodash, uslug, striptags, lib/utils *)

EmptyObj == [k \in {} |-> k]

\* _.extend(dst, src): the keys of src override those of dst
Extend(dst, src) == src @@ dst

\* _.union([], a, b): a followed by the entries of b not already present
RECURSIVE Union(_, _)
Union(a, b) ==
  IF b = <<>> THEN a
  ELSE Union(IF Head(b) \in Range(a) THEN a ELSE Append(a, Head(b)), Tail(b))

\* striptags(text): the text without its inline tags
StripTags(text) == SelectSeq(text, LAMBDA c : c \notin TagSyms)

LowerOf == [c \in {"A", "B", "C", "O", "T"} |->
             CASE c = "A" -> "a" [] c = "B" -> "b" [] c = "C" -> "c"
               [] c = "O" -> "o" [] c = "T" -> "t"]
Letters == DOMAIN LowerOf \cup Range(LowerOf)

\* uslug(text, {allowedChars: '-'}): lower-cased letters, runs of white space
\* as '-', every other character removed
Slugify(text) ==
  LET lowered == [i \in DOMAIN text |->
                    IF text[i] \in DOMAIN LowerOf THEN LowerOf[text[i]]
                    ELSE IF text[i] = " " THEN "-" ELSE text[i]]
  IN SelectSeq(lowered, LAMBDA c : c \in Letters \cup {"-"})

\* str contains pat as a contiguous run
Contains(str, pat) ==
  \E i \in 0..(Len(str) - Len(pat)) : SubSeq(str, i + 1, i + Len(pat)) = pat

\* utils.isMatch(keys, str): some key matches the string
IsMatch(keys, str) == \E i \in DOMAIN keys : Contains(str, keys[i])

-----------------------------------------------------------------------------
(* generate *)

defaultTemplate(data) ==
  data.depth \o data.bullet \o <<"[">> \o data.heading \o <<"]", "(", "#">>
    \o data.url \o <<")", NL>>

omissions ==
  << <<"T","a","b","l","e"," ","o","f"," ","C","o","n","t","e","n","t","s">>,
     <<"T","O","C">>,
     <<"T","A","B","L","E"," ","O","F"," ","C","O","N","T","E","N","T","S">> >>

Defaults == [firsth1 |-> FALSE, blacklist |-> TRUE, omit |-> <<>>, maxDepth |-> 3]

\* a shift that removes the first token only when it is a level-1 heading
ShiftTokens_OnlyH1(toks, opts) ==
  IF opts.firsth1 = FALSE /\ toks # <<>> /\ Head(toks).type = "heading"
     /\ Head(toks).depth = 1
  THEN Tail(toks) ELSE toks

\* if(opts.firsth1 === false) tokens.shift()
ShiftTokens(toks, opts) ==
  IF opts.firsth1 = FALSE /\ toks # <<>> THEN Tail(toks) ELSE toks

\* a test that looks at the first remaining token only
AnyDepth1_FirstOnly(toks) ==
  toks # <<>> /\ "depth" \in DOMAIN toks[1] /\ toks[1].depth = 1

\* a test that never finds a level-1 token
AnyDepth1_Never(toks) ==
  \E i \in DOMAIN toks : "depth" \in DOMAIN toks[i] /\ toks[i].depth = 0

\* _.any(tokens, {depth: 1})
AnyDepth1(toks) ==
  \E i \in DOMAIN toks : "depth" \in DOMAIN toks[i] /\ toks[i].depth = 1

\* an omission list without the built-in entries
OmitList_OptionsOnly(opts) == opts.omit

\* _.union([], opts.omit, omissions)
OmitList(opts) == Union(opts.omit, omissions)

\* the filter callback's effect on a heading token at index pos of lexed
Mutate(token, pos, noH1) ==
  [type |-> "heading",
   depth |-> IF noH1 THEN token.depth - 1 ELSE token.depth,
   text |-> token.text,
   heading |-> token.text,
   id |-> Slugify(StripTags(token.text)),
   pos |-> pos]

\* tokens.filter(...): the heading tokens, mutated, that are not omitted
FilterTokens(toks, anyH1, opts, off) ==
  LET m == [i \in DOMAIN toks |->
              IF toks[i].type = "heading" THEN Mutate(toks[i], i + off, ~anyH1)
              ELSE toks[i]]
  IN SelectSeq(m, LAMBDA t : t.type = "heading"
                              /\ ~IsMatch(OmitList(opts), t.heading))

\* a depth test that also drops the headings at maxDepth
TooDeep_Inclusive(h, opts) == h.depth >= opts.maxDepth

\* if(h.depth > opts.maxDepth) return;
TooDeep(h, opts) == h.depth > opts.maxDepth

\* Array.isArray(opts.bullet) ? opts.bullet[(h.depth - 1) % length] : opts.bullet
PickBullet(h, opts) ==
  IF "bullet" \notin DOMAIN opts THEN Undefined
  ELSE IF opts.bullet.isArray
       THEN IF Len(opts.bullet.v) = 0 \/ h.depth - 1 < 0 THEN Undefined
            ELSE opts.bullet.v[((h.depth - 1) % Len(opts.bullet.v)) + 1]
       ELSE opts.bullet.v

\* new Array(n): n is the array length handed to the constructor
ArrayLen(h) == (h.depth - 1) * 2 + 1

\* the record pushed on tocArray
Data(h, opts) ==
  LET bullet == PickBullet(h, opts)
  IN [depth |-> Spaces(ArrayLen(h) - 1),
      bullet |-> IF bullet = Undefined \/ bullet = <<>> THEN <<"*", " ">> ELSE bullet,
      heading |-> h.heading,
      url |-> h.id]

\* a visit in reverse order
Visit_Reversed(hs) == [i \in DOMAIN hs |-> hs[Len(hs) + 1 - i]]

\* the order in which forEach visits the accepted headings
Visit(hs) == hs

\* generate, from the token stream marked.lexer(str) returned
generate(lex, opts0) ==
  LET opts == Extend(Defaults, opts0)
      toks == ShiftTokens(lex, opts)
      off == Len(lex) - Len(toks)
      anyH1 == AnyDepth1(toks)
      hs == FilterTokens(toks, anyH1, opts, off)
      acc == Visit(SelectSeq(hs, LAMBDA h : ~TooDeep(h, opts)))
      bad == \E i \in DOMAIN acc : ArrayLen(acc[i]) < 0
      arr == [i \in DOMAIN acc |-> Data(acc[i], opts)]
  IN [tokens |-> toks, h1 |-> anyH1, headings |-> hs,
      data |-> IF bad THEN <<>> ELSE arr,
      toc |-> IF bad THEN <<>>
              ELSE Flatten([i \in DOMAIN arr |-> defaultTemplate(arr[i])]),
      kept |-> IF bad THEN <<>> ELSE [i \in DOMAIN acc |-> acc[i].pos],
      error |-> IF bad THEN "RangeError" ELSE "none"]

-----------------------------------------------------------------------------
(* Collaborators of toc.insert: marked, gray-matter, String.prototype.replace *)

\* the index of the first occurrence of symbol c in t, 0 when there is none
FirstIndex(t, c) ==
  IF c \in Range(t)
  THEN CHOOSE i \in DOMAIN t : t[i] = c /\ \A j \in 1..(i - 1) : t[j] # c
  ELSE 0

RECURSIVE SplitLines(_)
SplitLines(t) ==
  IF t = <<>> THEN <<>>
  ELSE LET brk == FirstIndex(t, NL)
       IN IF brk = 0 THEN <<t>>
          ELSE <<SubSeq(t, 1, brk - 1)>> \o SplitLines(SubSeq(t, brk + 1, Len(t)))

RECURSIVE DropSpaces(_)
DropSpaces(t) == IF t # <<>> /\ Head(t) = " " THEN DropSpaces(Tail(t)) ELSE t

\* the number of leading '#' of a line
Hashes(line) ==
  CHOOSE k \in 0..Len(line) :
    /\ \A i \in 1..k : line[i] = "#"
    /\ k = Len(line) \/ line[k + 1] # "#"

\* the block token of one non-blank line: an ATX heading or some other block
LineToken(line) ==
  LET k == Hashes(line)
      rest == DropSpaces(SubSeq(line, k + 1, Len(line)))
  IN IF k \in 1..6 /\ rest # <<>>
     THEN [type |-> "heading", depth |-> k, text |-> rest]
     ELSE [type |-> "paragraph"]

\* marked.lexer(str): a space token for two or more leading newlines, then one
\* token per non-blank line
Lexer(str) ==
  LET lines == SelectSeq(SplitLines(str), LAMBDA l : l # <<>>)
      lead == IF Len(str) >= 2 /\ str[1] = NL /\ str[2] = NL
              THEN <<[type |-> "space"]>> ELSE <<>>
  IN lead \o [i \in DOMAIN lines |-> LineToken(lines[i])]

\* the YAML loader and dumper agree on one spelling: runs of spaces are single
RECURSIVE YamlNormal(_)
YamlNormal(t) ==
  IF Len(t) < 2 THEN t
  ELSE IF t[1] = " " /\ t[2] = " " THEN YamlNormal(Tail(t))
       ELSE <<Head(t)>> \o YamlNormal(Tail(t))

\* matter(str): the front matter between two fence lines, and the body
Matter(str) ==
  LET close == IF Len(str) >= 2 /\ str[1] = FENCE /\ str[2] = NL
               THEN FirstIndex(SubSeq(str, 3, Len(str)), FENCE) ELSE 0
  IN IF close = 0 THEN [data |-> <<>>, content |-> str]
     ELSE [data |-> YamlNormal(SubSeq(str, 3, close + 1)),
           content |-> SubSeq(str, close + 4, Len(str))]

\* matter.stringify(content, data)
Stringify(content, data) ==
  IF data = <<>> THEN content
  ELSE <<FENCE, NL>> \o data \o <<FENCE, NL>> \o content

\* the span [from, to] matched by /<!-- toc -->([\s\S]+?)<!-- tocstop -->/,
\* <<0, 0>> when nothing matches
RegionOf(content) ==
  LET from == FirstIndex(content, START)
      rest == SubSeq(content, from + 2, Len(content))
      stop == IF from = 0 THEN 0 ELSE FirstIndex(rest, STOP)
  IN IF stop = 0 THEN <<0, 0>> ELSE <<from, from + 1 + stop>>

\* content.replace(re, start)
RemoveExisting(content) ==
  LET r == RegionOf(content)
  IN IF r[1] = 0 THEN content
     ELSE SubSeq(content, 1, r[1] - 1) \o <<START>>
            \o SubSeq(content, r[2] + 1, Len(content))

\* the replacement patterns of String.prototype.replace: "$$" inserts "$"
RECURSIVE ExpandDollar(_)
ExpandDollar(t) ==
  IF t = <<>> THEN <<>>
  ELSE IF Len(t) >= 2 /\ t[1] = "$" /\ t[2] = "$"
       THEN <<"$">> \o ExpandDollar(SubSeq(t, 3, Len(t)))
       ELSE <<Head(t)>> \o ExpandDollar(Tail(t))

\* res.replace(start, newtoc): the first start marker of res replaced
ReplaceStart(res, newtoc) ==
  LET at == FirstIndex(res, START)
  IN IF at = 0 THEN res
     ELSE SubSeq(res, 1, at - 1) \o ExpandDollar(newtoc)
            \o SubSeq(res, at + 1, Len(res))

\* toc.raw(str, options)
raw(str, opts0) == generate(Lexer(str), opts0)

\* toc(str, options)
toc(str, opts0) == raw(str, opts0).toc

\* the replacement block built around a generated TOC
NewToc(text) == <<NL, NL, START, NL, NL>> \o text \o <<NL, STOP, NL>>

\* toc.insert(str, options)
insert(str, opts0) ==
  LET file == Matter(str)
      content == RemoveExisting(file.content)
      thrown == raw(content, opts0).error
      newtoc == NewToc(toc(content, opts0))
      res == Stringify(content, file.data)
  IN [out |-> IF thrown = "none" THEN ReplaceStart(res, newtoc) ELSE str,
      error |-> thrown]

-----------------------------------------------------------------------------
(* Inputs *)

Texts == {TxtA, TxtB, TxtTOC}
HeadingTokens == {[type |-> "heading", depth |-> d, text |-> t] :
                    d \in 1..MaxTokDepth, t \in Texts}
TokenSet == HeadingTokens \cup {[type |-> "paragraph"]}
TokenSeqs == UNION {[1..n -> TokenSet] : n \in 0..MaxTokens}

EmptyBullet == [bullet |-> [isArray |-> TRUE, v |-> <<>>]]
ArrayBullet == [bullet |-> [isArray |-> TRUE, v |-> << <<"*", " ">>, <<"-", " ">> >>]]
FirstH1Opts == {EmptyObj, [firsth1 |-> TRUE]}
MaxDepthOpts == {EmptyObj, [maxDepth |-> 2]}
OmitOpts == {EmptyObj, [omit |-> <<TxtA>>]}
StringBullet == [bullet |-> [isArray |-> FALSE, v |-> <<"+", " ">>]]
BulletOpts == {EmptyBullet, ArrayBullet}
OptionSet ==
  {a @@ b @@ c : a \in FirstH1Opts, b \in MaxDepthOpts, c \in OmitOpts}
    \cup {a @@ d : a \in FirstH1Opts, d \in BulletOpts}
    \cup {[firsth1 |-> FALSE], StringBullet}

-----------------------------------------------------------------------------
(* toc.raw *)

Init ==
  /\ pc = "start"
  /\ lexed \in TokenSeqs
  /\ options \in OptionSet
  /\ tokens = <<>> /\ h1 = FALSE /\ headings = <<>>
  /\ tocArray = <<>> /\ tocText = <<>> /\ kept = <<>> /\ error = "none"
  /\ doc = <<>> /\ prev = <<>> /\ nIns = 0

Raw ==
  /\ pc = "start"
  /\ \E r \in {generate(lexed, options)} :
       /\ tokens' = r.tokens
       /\ h1' = r.h1
       /\ headings' = r.headings
       /\ tocArray' = r.data
       /\ tocText' = r.toc
       /\ kept' = r.kept
       /\ error' = r.error
  /\ pc' = "done"
  /\ UNCHANGED <<lexed, options, doc, prev, nIns>>

Next == Raw

Spec == Init /\ [][Next]_vars

-----------------------------------------------------------------------------
(* toc.insert *)

Line(t) == t \o <<NL>>
BlockSet == {Line(<<START>>), Line(<<STOP>>), <<NL>>, Line(<<"o">>),
             Line(<<"#", " ">> \o TxtA),
             Line(<<"#", "#", " ">> \o TxtB),
             Line(<<"#", "#", " ">> \o TxtDollar),
             Line(<<"#", "#", "#", " ">> \o TxtA)}
Bodies == {Flatten(b) : b \in UNION {[1..n -> BlockSet] : n \in 0..MaxBlocks}}
FrontMatters == {<<>>,
                 <<FENCE, NL, "t", ":", " ", " ", "A", NL, FENCE, NL>>,
                 <<FENCE, NL, "t", ":", " ", START, NL, FENCE, NL>>}
InsertOptions == {EmptyObj, [firsth1 |-> TRUE], [maxDepth |-> 2]}

InitInsert ==
  /\ pc = "doc"
  /\ \E fm \in FrontMatters, body \in Bodies : doc = fm \o body
  /\ options \in InsertOptions
  /\ lexed = <<>> /\ tokens = <<>> /\ h1 = FALSE /\ headings = <<>>
  /\ tocArray = <<>> /\ tocText = <<>> /\ kept = <<>> /\ error = "none"
  /\ prev = <<>> /\ nIns = 0

Insert ==
  /\ pc = "doc"
  /\ nIns < MaxInserts
  /\ \E r \in {insert(doc, options)} : doc' = r.out /\ error' = r.error
  /\ prev' = doc
  /\ nIns' = nIns + 1
  /\ UNCHANGED <<pc, lexed, options, tokens, h1, headings, tocArray, tocText, kept>>

NextInsert == Insert

SpecInsert == InitInsert /\ [][NextInsert]_vars

-----------------------------------------------------------------------------
(* The inputs of a finished toc.raw call, read off the caller's arguments *)

Done == pc = "done"

FirstH1 == IF "firsth1" \in DOMAIN options THEN options.firsth1 ELSE FALSE
MaxDepthOpt == IF "maxDepth" \in DOMAIN options THEN options.maxDepth ELSE 3
OmitSet ==
  (IF "omit" \in DOMAIN options THEN Range(options.omit) ELSE {})
    \cup Range(omissions)

\* the indices of lexed that are still in the stream after the optional removal
Remaining == ((IF FirstH1 = FALSE THEN 2 ELSE 1)..Len(lexed))
IsHeading(i) == lexed[i].type = "heading"
RemainingHeadings == {i \in Remaining : IsHeading(i)}
NoLevel1 == \A i \in RemainingHeadings : lexed[i].depth # 1
Rebased(i) == IF NoLevel1 THEN lexed[i].depth - 1 ELSE lexed[i].depth
Omitted(i) == \E e \in OmitSet : Contains(lexed[i].text, e)
Accepted == {i \in RemainingHeadings : ~Omitted(i) /\ Rebased(i) <= MaxDepthOpt}

\* C1: the rebasing decision is one flag for the whole document, taken after
\* the removal of the first token: when no remaining token has depth 1 every
\* surviving heading has its original depth minus 1, otherwise its original
\* depth; the indent of every record shows the same shift.
C1_UniformRebase ==
  Done =>
    /\ h1 = ~NoLevel1
    /\ \A j \in DOMAIN headings : headings[j].depth = Rebased(headings[j].pos)
    /\ \A k \in DOMAIN tocArray :
         Len(tocArray[k].depth) = (Rebased(kept[k]) - 1) * 2

\* C1 witness: the first token is a removed level-1 heading, none remains, and
\* two surviving headings of different original depth were both shifted.
C1_Witness ==
  /\ Done /\ FirstH1 = FALSE /\ NoLevel1
  /\ Len(lexed) >= 1 /\ IsHeading(1) /\ lexed[1].depth = 1
  /\ \E j, k \in DOMAIN tocArray :
       /\ lexed[kept[j]].depth = 2 /\ tocArray[j].depth = <<>>
       /\ lexed[kept[k]].depth = 3 /\ tocArray[k].depth = <<" ", " ">>

\* C3: no record, and no part of the rendered text, comes from a heading whose
\* text matches an entry of options.omit or of the built-in omissions,
\* whatever its depth and whatever maxDepth is.
C3_OmittedNeverListed ==
  Done =>
    /\ \A k \in DOMAIN tocArray :
         /\ ~Omitted(kept[k])
         /\ \A e \in OmitSet : ~Contains(tocArray[k].heading, e)
    /\ \A e \in OmitSet : ~Contains(tocText, e)

\* C3 witness: a heading omitted by options.omit and one omitted by the built-in
\* list, both within maxDepth, next to a heading that is listed.
C3_Witness ==
  /\ Done /\ "omit" \in DOMAIN options /\ Len(tocArray) >= 1
  /\ \E i, j \in RemainingHeadings :
       /\ lexed[i].text = TxtA /\ Rebased(i) <= MaxDepthOpt
       /\ lexed[j].text = TxtTOC /\ Rebased(j) <= MaxDepthOpt

\* C4: among the headings that are not omitted, exactly those whose rebased
\* depth is at most maxDepth (3 when the option is absent) are in the records.
C4_MaxDepthOnRebased ==
  Done =>
    \A i \in RemainingHeadings :
      ~Omitted(i) => ((i \in Range(kept)) <=> (Rebased(i) <= MaxDepthOpt))

\* C4 witness: a heading of original depth maxDepth + 1 is listed because the
\* document was rebased.
C4_Witness ==
  /\ Done /\ NoLevel1
  /\ \E k \in DOMAIN kept : lexed[kept[k]].depth = MaxDepthOpt + 1

Lines(t) == Len(SelectSeq(t, LAMBDA c : c = NL))

\* the line of record k under the default template
LineOf(k) ==
  Spaces((Rebased(kept[k]) - 1) * 2) \o tocArray[k].bullet \o <<"[">>
    \o lexed[kept[k]].text \o <<"]", "(", "#">> \o tocArray[k].url
    \o <<")", NL>>

\* C9: the records are exactly the accepted headings, in document order and
\* without deduplication, and the rendered text is their lines, one per
\* record, concatenated in that order with nothing in between.
C9_RecordsInOrder ==
  Done =>
    /\ Len(tocArray) = Len(kept)
    /\ \A j, k \in DOMAIN kept : j < k => kept[j] < kept[k]
    /\ Range(kept) = Accepted
    /\ tocText = Flatten([k \in DOMAIN tocArray |-> LineOf(k)])
    /\ Lines(tocText) = Len(tocArray)

\* C9 witness: two equal headings are both listed, after a deeper one.
C9_Witness ==
  /\ Done /\ Len(tocArray) = 3
  /\ tocArray[2] = tocArray[3]
  /\ Len(tocArray[1].depth) > Len(tocArray[2].depth)

\* C10: every heading that reaches the record-building step has rebased depth
\* at least 1, so the array length for the indent is at least 1, the bullet
\* index is not negative and generate does not throw.
C10_DepthAtLeastOne ==
  Done =>
    /\ error = "none"
    /\ \A j \in DOMAIN headings :
         /\ headings[j].depth >= 1
         /\ ArrayLen(headings[j]) >= 1
         /\ headings[j].depth - 1 >= 0

\* C10 witness: the document was rebased and a heading of original depth 2 is
\* listed at depth 1.
C10_Witness ==
  /\ Done /\ ~h1
  /\ \E j \in DOMAIN headings :
       headings[j].depth = 1 /\ lexed[headings[j].pos].depth = 2

\* an options.bullet that is an empty sequence
BulletIsEmptyArray ==
  /\ "bullet" \in DOMAIN options
  /\ options.bullet.isArray /\ options.bullet.v = <<>>

\* C8: with an empty bullet sequence generation fails with an error as soon as
\* a record is to be built.
C8_EmptyBulletFails ==
  (Done /\ BulletIsEmptyArray /\ Accepted # {}) => error # "none"

-----------------------------------------------------------------------------
(* The latest toc.insert call: prev is its input, doc its output *)

Inserted == pc = "doc" /\ nIns >= 1

\* the texts of the headings of a piece of a document
HeadingTexts(text) ==
  {t.text : t \in {u \in Range(Lexer(text)) : u.type = "heading"}}

\* C2: for a document that contains the start marker, inserting into the
\* output of an earlier insert returns that output unchanged.
C2_InsertIdempotent ==
  (/\ pc = "doc" /\ nIns >= 2
   /\ START \in Range(Matter(prev).content)
   /\ START \notin Range(Matter(prev).data)) => doc = prev

\* C6: the TOC is generated from the body with the marked region reduced to
\* the start marker, so it lists no heading that stood only between the
\* markers, and the output is the input with that region replaced by exactly
\* the newly generated block.
C6_FreshBlockReplacesRegion ==
  Inserted =>
    LET file == Matter(prev)
        body == file.content
        r == RegionOf(body)
        before == SubSeq(body, 1, r[1] - 1)
        inner == SubSeq(body, r[1] + 1, r[2] - 1)
        after == SubSeq(body, r[2] + 1, Len(body))
        fresh == toc(before \o <<START>> \o after, options)
        stale == HeadingTexts(inner) \ (HeadingTexts(before) \cup HeadingTexts(after))
    IN (r[1] # 0 /\ START \notin Range(file.data)) =>
         /\ \A t \in stale : ~Contains(fresh, <<"[">> \o t \o <<"]">>)
         /\ doc = Stringify(before \o NewToc(fresh) \o after, file.data)

\* C7: without a start marker in the body insert returns the document as the
\* front-matter round trip leaves it, with no error; with a start marker and
\* no stop marker the block is still put at the start marker.
C7_NoMarkerNoOp ==
  Inserted =>
    LET file == Matter(prev)
    IN /\ START \notin Range(file.content) =>
            error = "none" /\ doc = Stringify(file.content, file.data)
       /\ (START \in Range(file.content) /\ RegionOf(file.content) = <<0, 0>>) =>
            /\ RemoveExisting(file.content) = file.content
            /\ Contains(doc, <<NL, NL, START, NL, NL>>)
            /\ STOP \in Range(doc)

====
